---- MODULE Spec2Model ----
(***************************************************************************)
(* A model of docs/tutorial/hyperbeam-client-example.js: the polling       *)
(* engine of ProcessDashboard (subscribe, startPolling, stopPolling,       *)
(* notifySubscribers), ProcessClient.waitForStateChange,                   *)
(* ProcessDashboard.getDashboardData, the request mediator                 *)
(* HyperBEAMClient.get / post, the methods of ProcessClient and the        *)
(* functions of HyperBEAMUtils.                                            *)
(*                                                                         *)
(* Each group of operations has its own specification over its own         *)
(* variables; the variables of the other groups stay at their idle value.  *)
(*   Spec      the polling engine of one ProcessDashboard                  *)
(*   SpecWait  one call of waitForStateChange                              *)
(*   SpecDash  one call of getDashboardData                                *)
(*   SpecReq   one call of HyperBEAMClient.get or post                     *)
(*   SpecReqFair  the same, with the timer of the timeout signal fair      *)
(*   SpecProc  one call of a method of ProcessClient                       *)
(*   SpecUtil  one call of a function of HyperBEAMUtils                    *)
(***************************************************************************)
EXTENDS Integers, Sequences, FiniteSets, TLC

\* ------------------------------------------------------------------ bounds

\* startPolling calls in one run (each takes a fresh timer handle)
MaxStarts == 2
\* timer callbacks fired in one run
MaxTicks == 2
\* the largest maxAttempts waitForStateChange is called with
MaxAttempts == 3
\* registered observers
MaxSubscribers == 2
\* entries of the params object createTypedQuery is called with
MaxParams == 2

\* ------------------------------------------------------------ value domains

\* the intervals startPolling is called with, in units of time
Intervals == {1, 2}
\* the representations a liveState fetch can yield
States == {"s1", "s2"}
\* the errors a fetch can fail with (timeout, HTTP status, parse failure)
Errors == {"e1", "e2"}
\* the observers that can be registered; cbThrow throws whenever it is called
Callbacks == {"cbA", "cbThrow"}

NoError == "none"
NoState == "none"

\* this.pollingInterval = null; a timer handle is never falsy
NoTimer == 0

\* whether observer cb throws when it is called with state
CallbackThrows(cb, state) == cb = "cbThrow"

\* the error observer cb throws
CallbackError(cb) == "thrownBy_" \o cb

VARIABLES
    \* ProcessDashboard
    subscribers,      \* this.subscribers: the callbacks in registration order
    pollingInterval,  \* this.pollingInterval: a timer handle or NoTimer
    \* the runtime
    timers,           \* the active interval timers: [handle, interval, due]
    nextHandle,       \* the handle the next setInterval returns
    inflight,         \* the tick callbacks suspended at their await
    \* history
    tickCount,        \* timer callbacks fired so far
    firedNow,         \* timer callbacks fired by the last unit of time
    lastDone,         \* what the last resumed tick callback did
    startsSinceStop,  \* startPolling calls since construction or the last stop
    lastFailed        \* the last tick whose fetch failed, 0 when none has

pollVars == <<subscribers, pollingInterval, timers, nextHandle, inflight,
              tickCount, firedNow, lastDone, startsSinceStop, lastFailed>>

VARIABLES
    \* one call of ProcessClient.waitForStateChange
    waitCheck,        \* checkFunction: its verdict on each state
    waitMax,          \* maxAttempts
    waitInterval,     \* interval
    waitPc,           \* where the call is: called, fetching, sleeping, done
    waitI,            \* the loop variable i
    waitLog,          \* the fetches issued and the sleeps started, in order
    waitOutcomes,     \* how each fetch ended, in order
    waitResult        \* what the call returned or threw

waitVars == <<waitCheck, waitMax, waitInterval, waitPc, waitI, waitLog,
              waitOutcomes, waitResult>>

VARIABLES
    \* one call of ProcessDashboard.getDashboardData
    dashPc,           \* where the call is: idle, called, waiting, done
    dashIssued,       \* the GETs issued, in order
    dashReplies,      \* how the GET of each view ended, Pending until it has
    dashResult        \* what the call returned or threw

dashVars == <<dashPc, dashIssued, dashReplies, dashResult>>

VARIABLES
    \* one call of HyperBEAMClient.get or HyperBEAMClient.post
    client,           \* the HyperBEAMClient: nodeUrl, defaultHeaders, timeout
    reqCall,          \* the call: method, path, data, options
    reqPc,            \* where the call is: idle, called, awaitFetch,
                      \* awaitBody, done
    reqCalls,         \* the network calls made (fetch), in order
    reqResponse,      \* the response fetch resolved with, if any
    reqReads,         \* the reads of the response body: json, text
    reqConsole,       \* the console.error lines written
    reqResult         \* what the call returned or threw

reqVars == <<client, reqCall, reqPc, reqCalls, reqResponse, reqReads,
             reqConsole, reqResult>>

VARIABLES
    \* one call of a method of a ProcessClient
    procCall,         \* the call: processId, method, arguments
    procPc,           \* where the call is: idle, called, awaiting, done
    procResult        \* what the call returned or threw

procVars == <<procCall, procPc, procResult>>

VARIABLES
    \* one call of a function of HyperBEAMUtils
    utilCall,         \* the call: function, arguments
    utilPc,           \* where the call is: idle, called, done
    utilResult        \* what the call returned

utilVars == <<utilCall, utilPc, utilResult>>

vars == <<pollVars, waitVars, dashVars, reqVars, procVars, utilVars>>

\* ------------------------------------------------------- ProcessDashboard

NoTick == [tick |-> 0, timer |-> NoTimer, kind |-> "none", fetched |-> NoState,
           calls |-> <<>>, reports |-> <<>>, registered |-> <<>>,
           escaped |-> NoError]

\* constructor: this.subscribers = []; this.pollingInterval = null
InitPoll ==
    /\ subscribers = <<>>
    /\ pollingInterval = NoTimer
    /\ timers = {}
    /\ nextHandle = 1
    /\ inflight = {}
    /\ tickCount = 0
    /\ firedNow = 0
    /\ lastDone = NoTick
    /\ startsSinceStop = 0
    /\ lastFailed = 0

\* the handles of the active timers
ActiveHandles(tm) == {t.handle : t \in tm}

\* the runtime's setInterval: a fresh handle, first due after one interval
SetInterval(tm, h, interval) ==
    tm \cup {[handle |-> h, interval |-> interval, due |-> interval]}

\* the runtime's clearInterval: the timer is no longer active
ClearInterval(tm, h) == {t \in tm : t.handle # h}

\* subscribe(callback)
Subscribe(cb) ==
    /\ Len(subscribers) < MaxSubscribers
    /\ subscribers' = Append(subscribers, cb)
    /\ UNCHANGED <<pollingInterval, timers, nextHandle, inflight, tickCount,
                   firedNow, lastDone, startsSinceStop, lastFailed>>

\* startPolling's guard, without the clearInterval
StartPollingNoClear(tm, handle) == tm

\* startPolling's guard: if (this.pollingInterval) clearInterval(...)
StartPollingClear(tm, handle) ==
    IF handle # NoTimer THEN ClearInterval(tm, handle) ELSE tm

\* startPolling(interval)
StartPolling(interval) ==
    /\ nextHandle <= MaxStarts
    /\ timers' = SetInterval(StartPollingClear(timers, pollingInterval),
                             nextHandle, interval)
    /\ pollingInterval' = nextHandle
    /\ nextHandle' = nextHandle + 1
    /\ startsSinceStop' = IF startsSinceStop < 2 THEN startsSinceStop + 1 ELSE 2
    /\ UNCHANGED <<subscribers, inflight, tickCount, firedNow, lastDone,
                   lastFailed>>

\* stopPolling's body, forgetting the clearInterval
StopPollingKeepsTimer(tm, handle) == tm

\* stopPolling's body: if (this.pollingInterval) clearInterval(...)
StopPollingClear(tm, handle) ==
    IF handle # NoTimer THEN ClearInterval(tm, handle) ELSE tm

\* a stopPolling that also forgets the subscribers
StopPollingDropsSubscribers ==
    /\ timers' = StopPollingClear(timers, pollingInterval)
    /\ pollingInterval' = (IF pollingInterval # NoTimer THEN NoTimer
                           ELSE pollingInterval)
    /\ startsSinceStop' = 0
    /\ subscribers' = <<>>
    /\ UNCHANGED <<nextHandle, inflight, tickCount, firedNow, lastDone,
                   lastFailed>>

\* stopPolling()
StopPolling ==
    /\ timers' = StopPollingClear(timers, pollingInterval)
    /\ pollingInterval' = (IF pollingInterval # NoTimer THEN NoTimer
                           ELSE pollingInterval)
    /\ startsSinceStop' = 0
    /\ UNCHANGED <<subscribers, nextHandle, inflight, tickCount, firedNow,
                   lastDone, lastFailed>>

\* the timers that fire when one more unit of time has passed
DueTimers(tm) == {t \in tm : t.due = 1}

\* the position of handle h among the handles hs, in creation order
Rank(h, hs) == Cardinality({x \in hs : x <= h})

\* One unit of time passes. Every active timer that is due fires its callback,
\* which calls this.process.getCurrentState() and suspends at the await.
Advance ==
    LET due == DueTimers(timers)
        hs  == ActiveHandles(due)
    IN  /\ timers # {}
        /\ tickCount + Cardinality(due) <= MaxTicks
        /\ timers' = {IF t \in due THEN [t EXCEPT !.due = t.interval]
                      ELSE [t EXCEPT !.due = t.due - 1] : t \in timers}
        /\ inflight' = inflight \cup
              {[tick |-> tickCount + Rank(h, hs), timer |-> h] : h \in hs}
        /\ tickCount' = tickCount + Cardinality(due)
        /\ firedNow' = Cardinality(due)
            /\ UNCHANGED <<subscribers, pollingInterval, nextHandle, lastDone,
                       startsSinceStop, lastFailed>>

\* notifySubscribers without the try/catch round the callback: the first
\* exception ends the forEach and leaves notifySubscribers
RECURSIVE ForEachNoCatch(_, _, _, _)
ForEachNoCatch(subs, k, state, acc) ==
    IF k > Len(subs) THEN acc
    ELSE LET cb == subs[k]
             called == [acc EXCEPT
                          !.calls = Append(@, [cb |-> cb, arg |-> state])]
         IN  IF CallbackThrows(cb, state)
             THEN [called EXCEPT !.escaped = CallbackError(cb)]
             ELSE ForEachNoCatch(subs, k + 1, state, called)

NotifySubscribersNoCatch(subs, state) ==
    ForEachNoCatch(subs, 1, state,
                   [calls |-> <<>>, caught |-> <<>>, escaped |-> NoError])

\* this.subscribers.forEach(callback => { try { callback(state) } catch ... })
\* from position k on: the calls made, the errors caught and reported
RECURSIVE ForEachSubscriber(_, _, _, _)
ForEachSubscriber(subs, k, state, acc) ==
    IF k > Len(subs) THEN acc
    ELSE LET cb == subs[k]
             called == [acc EXCEPT
                          !.calls = Append(@, [cb |-> cb, arg |-> state])]
         IN  IF CallbackThrows(cb, state)
             THEN ForEachSubscriber(subs, k + 1, state,
                      [called EXCEPT !.caught = Append(@, CallbackError(cb))])
             ELSE ForEachSubscriber(subs, k + 1, state, called)

\* notifySubscribers(state)
NotifySubscribers(subs, state) ==
    ForEachSubscriber(subs, 1, state,
                      [calls |-> <<>>, caught |-> <<>>, escaped |-> NoError])

\* console.error('Subscriber callback error:', error) for each caught error
SubscriberReports(caught) ==
    [k \in 1..Len(caught) |-> [label |-> "Subscriber callback error:",
                               error |-> caught[k]]]

\* the catch of the tick callback: console.error('Polling error:', error)
PollingReport(error) ==
    IF error = NoError THEN <<>>
    ELSE <<[label |-> "Polling error:", error |-> error]>>

\* The tick callback t resumes with the fetched state: notifySubscribers runs
\* inside the callback's try, so an exception leaving it is caught there.
TickResolved(t, state) ==
    LET r == NotifySubscribers(subscribers, state)
    IN  /\ t \in inflight
        /\ inflight' = inflight \ {t}
        /\ lastDone' = [tick |-> t.tick, timer |-> t.timer, kind |-> "ok",
                        fetched |-> state, calls |-> r.calls,
                        reports |-> SubscriberReports(r.caught)
                                      \o PollingReport(r.escaped),
                        registered |-> subscribers, escaped |-> NoError]
            /\ UNCHANGED <<subscribers, pollingInterval, timers, nextHandle,
                       tickCount, firedNow, startsSinceStop, lastFailed>>

\* the tick callback's catch, stopping the polling on an error
TickCatchStops(tm, handle) ==
    [timers |-> ClearInterval(tm, handle), pollingInterval |-> NoTimer]

\* the tick callback's catch: the error is reported, the timer is left alone
TickCatch(tm, handle) == [timers |-> tm, pollingInterval |-> handle]

\* The tick callback t resumes with the fetch's error.
TickRejected(t, error) ==
    LET after == TickCatch(timers, pollingInterval)
    IN  /\ t \in inflight
        /\ inflight' = inflight \ {t}
        /\ timers' = after.timers
        /\ pollingInterval' = after.pollingInterval
        /\ lastDone' = [tick |-> t.tick, timer |-> t.timer, kind |-> "err",
                        fetched |-> NoState, calls |-> <<>>,
                        reports |-> PollingReport(error),
                        registered |-> subscribers, escaped |-> NoError]
        /\ lastFailed' = t.tick
            /\ UNCHANGED <<subscribers, nextHandle, tickCount, firedNow,
                       startsSinceStop>>

\* ------------------------------------------ ProcessClient.waitForStateChange

PredicateNotMet == "State change not detected"

\* what checkFunction can do with a state: return truthy, return falsy, throw
Verdicts == {"true", "false", "throw"}
CheckFunctions == [States -> Verdicts]

\* the error a throwing checkFunction throws
CheckError == "thrownByCheck"

Pending == [kind |-> "none", value |-> NoState]

\* no call of waitForStateChange is made
WaitIdle ==
    /\ waitCheck = [s \in States |-> "false"]
    /\ waitMax = 0
    /\ waitInterval = 0
    /\ waitPc = "idle"
    /\ waitI = 0
    /\ waitLog = <<>>
    /\ waitOutcomes = <<>>
    /\ waitResult = Pending

\* waitForStateChange(checkFunction, maxAttempts, interval) is called
InitWait ==
    /\ waitCheck \in CheckFunctions
    /\ waitMax \in -1..MaxAttempts
    /\ waitInterval \in Intervals
    /\ waitPc = "called"
    /\ waitI = 0
    /\ waitLog = <<>>
    /\ waitOutcomes = <<>>
    /\ waitResult = Pending

FetchEvent == [ev |-> "fetch", ms |-> 0]
SleepEvent(ms) == [ev |-> "sleep", ms |-> ms]

\* a loop whose body runs before its condition is tested the first time
WaitLoopTestAfterBody(i, max) == i < max \/ i = 0

\* a loop condition that lets one attempt too many through
WaitLoopTestOffByOne(i, max) == i <= max

\* the for loop's condition: i < maxAttempts
WaitLoopTest(i, max) == i < max

\* The loop is entered with i: either the body starts, calls
\* this.getCurrentState() and suspends at its await, or the loop is left and
\* the function throws the error of line 173.
WaitLoop(i) ==
    /\ waitI' = i
    /\ IF WaitLoopTest(i, waitMax)
       THEN /\ waitPc' = "fetching"
            /\ waitLog' = Append(waitLog, FetchEvent)
            /\ waitResult' = waitResult
       ELSE /\ waitPc' = "done"
            /\ waitLog' = waitLog
            /\ waitResult' = [kind |-> "threw", value |-> PredicateNotMet]

\* the call runs up to its first await
WaitStart ==
    /\ waitPc = "called"
    /\ WaitLoop(0)
    /\ UNCHANGED <<waitCheck, waitMax, waitInterval, waitOutcomes>>

\* a catch that rethrows whatever the attempt
WaitCatchAlwaysRethrows(i, max) == TRUE

\* the catch's test: if (i === maxAttempts - 1) throw error
WaitCatchRethrows(i, max) == i = max - 1

\* the catch block with error: console.warn, then rethrow or the next turn of
\* the loop
WaitCatch(error) ==
    IF WaitCatchRethrows(waitI, waitMax)
    THEN /\ waitPc' = "done"
         /\ waitResult' = [kind |-> "threw", value |-> error]
         /\ UNCHANGED <<waitI, waitLog>>
    ELSE WaitLoop(waitI + 1)

\* a body that takes a throwing checkFunction for a falsy one
WaitAfterCheckThrowIsFalsy(verdict) ==
    CASE verdict = "true"  -> "return"
      [] verdict = "false" -> "sleep"
      [] verdict = "throw" -> "sleep"

\* a body that does not return on a truthy verdict
WaitAfterCheckIgnoresMatch(verdict) ==
    CASE verdict = "true"  -> "sleep"
      [] verdict = "false" -> "sleep"
      [] verdict = "throw" -> "catch"

\* the try block after the await: if (checkFunction(state)) return state;
\* otherwise the sleep; a throwing checkFunction leads to the catch
WaitAfterCheck(verdict) ==
    CASE verdict = "true"  -> "return"
      [] verdict = "false" -> "sleep"
      [] verdict = "throw" -> "catch"

\* the fetch of the current attempt yields state
WaitFetchResolved(state) ==
    LET todo == WaitAfterCheck(waitCheck[state])
    IN  /\ waitPc = "fetching"
        /\ waitOutcomes' = Append(waitOutcomes, [ok |-> TRUE, value |-> state])
        /\ CASE todo = "return" ->
                  /\ waitPc' = "done"
                  /\ waitResult' = [kind |-> "returned", value |-> state]
                  /\ UNCHANGED <<waitI, waitLog>>
             [] todo = "sleep" ->
                  /\ waitPc' = "sleeping"
                  /\ waitLog' = Append(waitLog, SleepEvent(waitInterval))
                  /\ UNCHANGED <<waitI, waitResult>>
             [] todo = "catch" -> WaitCatch(CheckError)
        /\ UNCHANGED <<waitCheck, waitMax, waitInterval>>

\* the fetch of the current attempt fails with error
WaitFetchRejected(error) ==
    /\ waitPc = "fetching"
    /\ waitOutcomes' = Append(waitOutcomes, [ok |-> FALSE, value |-> error])
    /\ WaitCatch(error)
    /\ UNCHANGED <<waitCheck, waitMax, waitInterval>>

\* the sleep's timeout fires: i++ and the next turn of the loop
WaitSleepDone ==
    /\ waitPc = "sleeping"
    /\ WaitLoop(waitI + 1)
    /\ UNCHANGED <<waitCheck, waitMax, waitInterval, waitOutcomes>>

\* ----------------------------------------- ProcessDashboard.getDashboardData

\* the three views getDashboardData reads, in the order of the array given
\* to Promise.all, and the path of each under basePath
DashViews == <<"state", "schedule", "cache">>
DashPath(view) ==
    CASE view = "state"    -> "/now"
      [] view = "schedule" -> "/schedule"
      [] view = "cache"    -> "/compute/cache"

\* the representations the node can answer each view with
DashValues(view) ==
    CASE view = "state"    -> States
      [] view = "schedule" -> {"log1", "log2"}
      [] view = "cache"    -> {"cache1", "cache2"}

\* the values new Date().toISOString() can give
Timestamps == {"t1", "t2"}

Null == "null"

Fulfilled(value) == [kind |-> "ok", value |-> value]
Rejected(error) == [kind |-> "err", value |-> error]

\* no call of getDashboardData is made
DashIdle ==
    /\ dashPc = "idle"
    /\ dashIssued = <<>>
    /\ dashReplies = [v \in {"state", "schedule", "cache"} |-> Pending]
    /\ dashResult = Pending

\* getDashboardData() is called
InitDash ==
    /\ dashPc = "called"
    /\ dashIssued = <<>>
    /\ dashReplies = [v \in {"state", "schedule", "cache"} |-> Pending]
    /\ dashResult = Pending

\* a getDashboardData that awaits its GETs one after the other: only the
\* first one is issued before the first wait
DashStartSequential ==
    /\ dashPc = "called"
    /\ dashPc' = "waiting"
    /\ dashIssued' = <<[method |-> "GET", path |-> DashPath(DashViews[1])]>>
    /\ UNCHANGED <<dashReplies, dashResult>>

\* The call runs up to its await: the three calls in the array each issue
\* their GET before Promise.all is called.
DashStart ==
    /\ dashPc = "called"
    /\ dashPc' = "waiting"
    /\ dashIssued' = [k \in 1..Len(DashViews) |->
                        [method |-> "GET", path |-> DashPath(DashViews[k])]]
    /\ UNCHANGED <<dashReplies, dashResult>>

\* the cached-subtree promise without its catch
CacheNotCaught(reply) == reply

\* this.process.getCacheData().catch(() => null)
CacheBestEffort(reply) ==
    IF reply.kind = "err" THEN Fulfilled(Null) ELSE reply

\* the promises given to Promise.all, settled as far as the GETs have ended
DashPromises(replies) ==
    [v \in DOMAIN replies |->
        IF v = "cache" THEN CacheBestEffort(replies[v]) ELSE replies[v]]

\* The GET of view ends with reply. Promise.all rejects with the first of its
\* promises that rejects and fulfills once all have fulfilled; the catch of
\* getDashboardData reports the error and throws it again. A reply that
\* arrives after Promise.all has rejected changes nothing.
DashReply(view, reply, now) ==
    LET replies  == [dashReplies EXCEPT ![view] = reply]
        promises == DashPromises(replies)
    IN  /\ dashPc \in {"waiting", "done"}
        /\ dashReplies[view] = Pending
        /\ dashReplies' = replies
        /\ IF dashPc = "done"
           THEN UNCHANGED <<dashPc, dashResult>>
           ELSE IF promises[view].kind = "err"
           THEN /\ dashPc' = "done"
                /\ dashResult' = [kind |-> "threw",
                                  value |-> promises[view].value]
           ELSE IF \A v \in DOMAIN promises : promises[v].kind = "ok"
           THEN /\ dashPc' = "done"
                /\ dashResult' =
                      [kind |-> "returned",
                       value |-> [state |-> promises["state"].value,
                                  schedule |-> promises["schedule"].value,
                                  cache |-> promises["cache"].value,
                                  timestamp |-> now]]
           ELSE UNCHANGED <<dashPc, dashResult>>
        /\ UNCHANGED dashIssued

\* -------------------------------------------- HyperBEAMClient.get and post

Undefined == "undefined"

\* an option of an options object: <<>> when it is not given, <<v>> when it
\* is given as v
NotGiven == <<>>
Given(v) == <<v>>

\* the header sets of the model: a function from header names to values
NoHeaders == [n \in {} |-> ""]
HeaderSets ==
    {NoHeaders,
     [n \in {"Accept"} |-> "text/plain"],
     [n \in {"Content-Type"} |-> "text/plain"]}

\* an object spread in which the entries of a win over those of b
SpreadKeepsFirst(a, b) ==
    [n \in DOMAIN a \cup DOMAIN b |-> IF n \in DOMAIN a THEN a[n] ELSE b[n]]

\* object spread {...a, ...b}: the entries of b override those of a
Spread(a, b) ==
    [n \in DOMAIN a \cup DOMAIN b |-> IF n \in DOMAIN b THEN b[n] ELSE a[n]]

DefaultNodeUrl == "http://localhost:10000"
DefaultTimeout == 30000

\* the options a client is constructed with
ClientOptions ==
    [nodeUrl : {NotGiven, Given("http://node")},
     headers : {NotGiven} \cup {Given(h) : h \in HeaderSets \ {NoHeaders}},
     timeout : {NotGiven, Given(0), Given(5)}]

\* constructor(options): each option || its default
NewClient(options) ==
    [nodeUrl |-> IF options.nodeUrl = NotGiven THEN DefaultNodeUrl
                 ELSE options.nodeUrl[1],
     defaultHeaders |-> IF options.headers = NotGiven THEN NoHeaders
                        ELSE options.headers[1],
     timeout |-> IF options.timeout \in {NotGiven, Given(0)}
                 THEN DefaultTimeout
                 ELSE options.timeout[1]]

\* the data post is called with: a string, or an object to be serialized
NoData == [type |-> "undefined", text |-> ""]
PostData == {[type |-> "string", text |-> "raw"],
             [type |-> "object", text |-> "{\"k\":1}"]}

\* typeof data === 'string' ? data : JSON.stringify(data)
RequestBody(data) ==
    IF data.type = "string" THEN data.text ELSE "json:" \o data.text

\* the content types a response declares, as the fragments of the header
\* value; NoContentType is headers.get('content-type') === null
NoContentType == <<>>
ContentTypes ==
    {NoContentType,
     <<"application/json">>,
     <<"application/json", "; charset=utf-8">>,
     <<"application/json", "-seq">>,
     <<"text/plain">>}

\* a test for the whole header value being application/json
DeclaresJsonExactly(contentType) == contentType = <<"application/json">>

\* contentType && contentType.includes('application/json')
DeclaresJson(contentType) ==
    /\ contentType # NoContentType
    /\ \E k \in DOMAIN contentType : contentType[k] = "application/json"

\* the bodies of the model; the first two are JSON text
Bodies == {"{\"n\":1}", "[2]", "not json"}
ParsesAsJson(body) == body \in {"{\"n\":1}", "[2]"}
\* the value JSON.parse gives for a body that parses
JsonValue(body) ==
    IF body = "[2]" THEN [type |-> "array", items |-> <<2>>]
    ELSE [type |-> "object", n |-> 1]
\* the value response.text() gives
TextValue(body) == [type |-> "string", text |-> body]

\* the responses of the node
Statuses == {200, 201, 404, 500}
StatusText(status) ==
    CASE status = 200 -> "OK"
      [] status = 201 -> "Created"
      [] status = 404 -> "Not Found"
      [] status = 500 -> "Internal Server Error"
\* response.ok
StatusOk(status) == status >= 200 /\ status <= 299
Responses ==
    [status : Statuses, contentType : ContentTypes, body : Bodies]

NoResponse == [status |-> 0, contentType |-> NoContentType, body |-> ""]

\* the errors fetch and the body readers reject with
NetworkError == [name |-> "TypeError", message |-> "fetch failed"]
TimeoutError == [name |-> "TimeoutError", message |-> "timed out"]
SyntaxError == [name |-> "SyntaxError", message |-> "not valid JSON"]
\* new Error(`HTTP ${response.status}: ${response.statusText}`)
HttpError(status) == [name |-> "Error", status |-> status,
                      statusText |-> StatusText(status)]

\* no call of get or post is made
ReqIdle ==
    /\ client = NewClient([nodeUrl |-> NotGiven, headers |-> NotGiven,
                           timeout |-> NotGiven])
    /\ reqCall = [method |-> "none", path |-> "", data |-> NoData,
                  headers |-> NotGiven, debug |-> FALSE]
    /\ reqPc = "idle"
    /\ reqCalls = <<>>
    /\ reqResponse = NoResponse
    /\ reqReads = <<>>
    /\ reqConsole = <<>>
    /\ reqResult = Pending

\* the calls of the model: get(path, options), post(path, data, options)
ReqCallsOf(method) ==
    [method : {method},
     path : {"/~meta@1.0/info"},
     data : IF method = "POST" THEN PostData ELSE {NoData},
     headers : {NotGiven, Given([n \in {"Accept"} |-> "application/json"]),
                Given([n \in {"Content-Type"} |-> "application/xml"])},
     debug : BOOLEAN]

\* a client is constructed and get or post is called on it
InitReq ==
    /\ \E options \in ClientOptions : client = NewClient(options)
    /\ reqCall \in ReqCallsOf("GET") \cup ReqCallsOf("POST")
    /\ reqPc = "called"
    /\ reqCalls = <<>>
    /\ reqResponse = NoResponse
    /\ reqReads = <<>>
    /\ reqConsole = <<>>
    /\ reqResult = Pending

\* ...options.headers: spreading undefined adds nothing
OptionHeaders(call) ==
    IF call.headers = NotGiven THEN NoHeaders ELSE call.headers[1]

\* a request without signal: AbortSignal.timeout(...), shown as timeout 0
FetchRequestNoSignal(c, call) ==
    [method |-> call.method,
     url |-> c.nodeUrl \o call.path,
     headers |-> IF call.method = "GET"
                 THEN Spread(c.defaultHeaders, OptionHeaders(call))
                 ELSE Spread(Spread([n \in {"Content-Type"} |->
                                        "application/json"],
                                    c.defaultHeaders),
                             OptionHeaders(call)),
     body |-> IF call.method = "GET" THEN Undefined
              ELSE RequestBody(call.data),
     timeout |-> 0]

\* signal: AbortSignal.timeout(this.timeout): the request is aborted once
\* its timeout has elapsed, the fetch and the read of the body alike
HasTimeoutSignal(request) == request.timeout > 0

\* the argument of fetch in get and in post
FetchRequest(c, call) ==
    IF call.method = "GET"
    THEN [method |-> "GET",
          url |-> c.nodeUrl \o call.path,
          headers |-> Spread(c.defaultHeaders, OptionHeaders(call)),
          body |-> Undefined,
          timeout |-> c.timeout]
    ELSE [method |-> "POST",
          url |-> c.nodeUrl \o call.path,
          headers |-> Spread(Spread([n \in {"Content-Type"} |->
                                        "application/json"],
                                    c.defaultHeaders),
                             OptionHeaders(call)),
          body |-> RequestBody(call.data),
          timeout |-> c.timeout]

\* the call runs up to its first await: fetch is called, one network call
ReqStart ==
    /\ reqPc = "called"
    /\ reqPc' = "awaitFetch"
    /\ reqCalls' = Append(reqCalls, FetchRequest(client, reqCall))
    /\ UNCHANGED <<client, reqCall, reqResponse, reqReads, reqConsole,
                   reqResult>>

\* a catch block that calls fetch once more before it gives up
ReqCatchRetries(error) ==
    /\ reqConsole' = IF reqCall.debug
                     THEN Append(reqConsole, [label |-> reqCall.method,
                                              error |-> error])
                     ELSE reqConsole
    /\ IF Len(reqCalls) < 2
       THEN /\ reqPc' = "awaitFetch"
            /\ reqCalls' = Append(reqCalls, FetchRequest(client, reqCall))
            /\ reqResult' = reqResult
       ELSE /\ reqPc' = "done"
            /\ reqCalls' = reqCalls
            /\ reqResult' = [kind |-> "threw", value |-> error]

\* the catch block: console.error when options.debug, then throw error
ReqCatch(error) ==
    /\ reqConsole' = IF reqCall.debug
                     THEN Append(reqConsole, [label |-> reqCall.method,
                                              error |-> error])
                     ELSE reqConsole
    /\ reqPc' = "done"
    /\ reqCalls' = reqCalls
    /\ reqResult' = [kind |-> "threw", value |-> error]

\* fetch rejects: the network failed, or the timeout signal aborted it
ReqFetchRejected(error) ==
    /\ reqPc = "awaitFetch"
    /\ error = TimeoutError => HasTimeoutSignal(reqCalls[Len(reqCalls)])
    /\ ReqCatch(error)
    /\ UNCHANGED <<client, reqCall, reqResponse, reqReads>>

\* a handler that reads the body before it looks at the status
ReqFetchResolvedReadsFirst(response) ==
    /\ reqPc = "awaitFetch"
    /\ reqResponse' = response
    /\ reqPc' = "awaitBody"
    /\ reqReads' = Append(reqReads,
                          IF DeclaresJson(response.contentType)
                          THEN "json" ELSE "text")
    /\ UNCHANGED <<reqCalls, reqConsole, reqResult>>
    /\ UNCHANGED <<client, reqCall>>

\* fetch resolves with response: a status that is not ok throws; otherwise
\* the body is read as JSON or as text, by the declared content type
ReqFetchResolved(response) ==
    /\ reqPc = "awaitFetch"
    /\ reqResponse' = response
    /\ IF ~StatusOk(response.status)
       THEN /\ ReqCatch(HttpError(response.status))
            /\ UNCHANGED reqReads
       ELSE /\ reqPc' = "awaitBody"
            /\ reqReads' = Append(reqReads,
                                  IF DeclaresJson(response.contentType)
                                  THEN "json" ELSE "text")
            /\ UNCHANGED <<reqCalls, reqConsole, reqResult>>
    /\ UNCHANGED <<client, reqCall>>

\* a reader that falls back to the text of a body that does not parse
ReqBodyReadFallsBackToText ==
    /\ reqPc = "awaitBody"
    /\ reqPc' = "done"
    /\ reqResult' = [kind |-> "returned",
                     value |-> IF /\ reqReads[Len(reqReads)] = "json"
                                  /\ ParsesAsJson(reqResponse.body)
                               THEN JsonValue(reqResponse.body)
                               ELSE TextValue(reqResponse.body)]
    /\ UNCHANGED <<reqCalls, reqConsole>>
    /\ UNCHANGED <<client, reqCall, reqResponse, reqReads>>

\* response.json() or response.text() settles
ReqBodyRead ==
    /\ reqPc = "awaitBody"
    /\ IF reqReads[Len(reqReads)] = "text"
       THEN /\ reqPc' = "done"
            /\ reqResult' = [kind |-> "returned",
                             value |-> TextValue(reqResponse.body)]
            /\ UNCHANGED <<reqCalls, reqConsole>>
       ELSE IF ParsesAsJson(reqResponse.body)
       THEN /\ reqPc' = "done"
            /\ reqResult' = [kind |-> "returned",
                             value |-> JsonValue(reqResponse.body)]
            /\ UNCHANGED <<reqCalls, reqConsole>>
       ELSE ReqCatch(SyntaxError)
    /\ UNCHANGED <<client, reqCall, reqResponse, reqReads>>

\* the timeout signal aborts the read of the body
ReqBodyAborted ==
    /\ reqPc = "awaitBody"
    /\ HasTimeoutSignal(reqCalls[Len(reqCalls)])
    /\ ReqCatch(TimeoutError)
    /\ UNCHANGED <<client, reqCall, reqResponse, reqReads>>

\* ------------------------------------------------------------ ProcessClient

ProcessIds == {"p1", "p2"}

\* this.basePath = `/${processId}~process@1.0`
BasePath(processId) == "/" \o processId \o "~process@1.0"

\* client.get(path): a call of get with no options
GetCall(path) ==
    [method |-> "GET", path |-> path, data |-> NoData, headers |-> NotGiven,
     debug |-> FALSE]

GetCurrentState(processId) == GetCall(BasePath(processId) \o "/now")
GetCachedState(processId) == GetCall(BasePath(processId) \o "/compute")
GetSchedule(processId) == GetCall(BasePath(processId) \o "/schedule")

\* a getCacheData that drops its key
GetCacheDataIgnoresKey(processId, key) ==
    GetCall(BasePath(processId) \o "/compute/cache")

\* getCacheData(key = ''): the key is NotGiven or Given(k); an empty key is
\* falsy like no key
GetCacheData(processId, key) ==
    IF key # NotGiven /\ key[1] # ""
    THEN GetCall(BasePath(processId) \o "/compute/cache/" \o key[1])
    ELSE GetCall(BasePath(processId) \o "/compute/cache")

GetData(processId, path) ==
    GetCall(BasePath(processId) \o "/compute/" \o path)

\* the default of the data parameter of sendMessage: {}
EmptyObject == [type |-> "object", text |-> "{}"]

\* sendMessage(action, data = {}, headers = {}): a call of post with the
\* headers { 'Action': action, ...headers }
SendMessage(processId, action, data, headers) ==
    [method |-> "POST",
     path |-> BasePath(processId) \o "/schedule",
     data |-> IF data = NotGiven THEN EmptyObject ELSE data[1],
     headers |-> Given(Spread([n \in {"Action"} |-> action],
                              IF headers = NotGiven THEN NoHeaders
                              ELSE headers[1])),
     debug |-> FALSE]

ProcViews == {"getCurrentState", "getCachedState", "getSchedule"}
Actions == {"Info", "Transfer"}

\* the calls of the model; arg is the key of getCacheData, the path of
\* getData, the action of sendMessage
ProcCalls ==
    [processId : ProcessIds, op : ProcViews, arg : {NotGiven},
     data : {NotGiven}, headers : {NotGiven}]
    \cup
    [processId : ProcessIds, op : {"getCacheData"},
     arg : {NotGiven, Given(""), Given("balances")},
     data : {NotGiven}, headers : {NotGiven}]
    \cup
    [processId : ProcessIds, op : {"getData"}, arg : {Given("balances")},
     data : {NotGiven}, headers : {NotGiven}]
    \cup
    [processId : ProcessIds, op : {"sendMessage"},
     arg : {Given(a) : a \in Actions},
     data : {NotGiven} \cup {Given(d) : d \in PostData},
     headers : {NotGiven, Given([n \in {"X-Tag"} |-> "t"]),
                Given([n \in {"Action"} |-> "Eval"])}]

\* the call of get or post a method of ProcessClient makes
ProcRequest(call) ==
    CASE call.op = "getCurrentState" -> GetCurrentState(call.processId)
      [] call.op = "getCachedState" -> GetCachedState(call.processId)
      [] call.op = "getSchedule" -> GetSchedule(call.processId)
      [] call.op = "getCacheData" -> GetCacheData(call.processId, call.arg)
      [] call.op = "getData" -> GetData(call.processId, call.arg[1])
      [] call.op = "sendMessage" ->
            SendMessage(call.processId, call.arg[1], call.data, call.headers)

\* no method of a ProcessClient is called
ProcIdle ==
    /\ procCall = [processId |-> "", op |-> "none", arg |-> NotGiven,
                   data |-> NotGiven, headers |-> NotGiven]
    /\ procPc = "idle"
    /\ procResult = Pending

\* a client and a ProcessClient on it are constructed and one method of the
\* ProcessClient is called
InitProc ==
    /\ \E options \in ClientOptions : client = NewClient(options)
    /\ reqCall = [method |-> "none", path |-> "", data |-> NoData,
                  headers |-> NotGiven, debug |-> FALSE]
    /\ reqPc = "idle"
    /\ reqCalls = <<>>
    /\ reqResponse = NoResponse
    /\ reqReads = <<>>
    /\ reqConsole = <<>>
    /\ reqResult = Pending
    /\ procCall \in ProcCalls
    /\ procPc = "called"
    /\ procResult = Pending

\* the method calls get or post, which runs up to its first await
ProcStart ==
    /\ procPc = "called"
    /\ reqPc = "idle"
    /\ procPc' = "awaiting"
    /\ reqCall' = ProcRequest(procCall)
    /\ reqPc' = "awaitFetch"
    /\ reqCalls' = Append(reqCalls, FetchRequest(client, reqCall'))
    /\ UNCHANGED <<client, reqResponse, reqReads, reqConsole, reqResult,
                   procCall, procResult>>

\* return await this.client.get(...) or post(...): the method settles as
\* the call of get or post did
ProcReturn ==
    /\ procPc = "awaiting"
    /\ reqPc = "done"
    /\ procPc' = "done"
    /\ procResult' = reqResult
    /\ UNCHANGED <<procCall, reqVars>>

\* ------------------------------------------------------------ HyperBEAMUtils

\* A string is a sequence of pieces: a piece is one character that the
\* serializer of URLSearchParams rewrites (space, + , ; = & / ?) or a run of
\* characters it keeps (letters, digits, * - . _).

\* the string as one text
RECURSIVE Text(_)
Text(s) == IF s = <<>> THEN "" ELSE s[1] \o Text(Tail(s))

\* strs.join(sep)
RECURSIVE Join(_, _)
Join(strs, sep) ==
    IF strs = <<>> THEN <<>>
    ELSE IF Len(strs) = 1 THEN strs[1]
    ELSE strs[1] \o sep \o Join(Tail(strs), sep)

\* the values of the parameters of the model: numbers (whole says whether
\* the number is an integer, text is what toString gives), arrays of
\* strings, objects with string values (their entries in insertion order)
\* and strings
NumberValues ==
    {[type |-> "number", whole |-> TRUE, text |-> <<"42">>],
     [type |-> "number", whole |-> FALSE, text |-> <<"3.14">>]}
ArrayValues ==
    {[type |-> "array", items |-> items] :
        items \in {<<>>,
                   << <<"apple">> >>,
                   << <<"apple">>, <<"banana">> >>,
                   << <<>> >>,
                   << <<"a">>, <<"b">> >>,
                   << <<"a", ",", "b">> >>}}
ObjectValues ==
    {[type |-> "object", entries |-> entries] :
        entries \in {<<>>,
                     << [k |-> <<"k1">>, v |-> <<"v1">>] >>,
                     << [k |-> <<"k1">>, v |-> <<"v1">>],
                        [k |-> <<"k2">>, v |-> <<"v2">>] >>,
                     << [k |-> <<"k1">>, v |-> <<"v1", ";", "k2", "=", "v2">>] >>,
                     << [k |-> <<"k1">>, v |-> <<"x", "=", "y">>] >>}}
StringValues ==
    {[type |-> "string", text |-> text] :
        text \in {<<"Hello">>, <<"hello", " ", "world">>, <<"a", ",", "b">>}}
ParamValues == NumberValues \cup ArrayValues \cup ObjectValues \cup StringValues

ParamKeys == {<<"count">>, <<"items">>, <<"n">>}

\* the objects of n entries passed as params: their entries in insertion
\* order, no key twice
RECURSIVE ParamsOfLen(_)
ParamsOfLen(n) ==
    IF n = 0 THEN {<<>>}
    ELSE UNION {{Append(ps, [key |-> key, value |-> value]) :
                    key \in ParamKeys \ {ps[i].key : i \in 1..Len(ps)},
                    value \in ParamValues} :
                ps \in ParamsOfLen(n - 1)}
\* the objects of at most max entries
Params(max) == UNION {ParamsOfLen(n) : n \in 0..max}

\* the pair createTypedQuery appends to queryParams for one entry of params
TypedPair(key, value) ==
    IF value.type = "number"
    THEN [name |-> key \o <<"+", "integer">>, value |-> value.text]
    ELSE IF value.type = "array"
    THEN [name |-> key \o <<"+", "list">>,
          value |-> Join(value.items, <<",">>)]
    ELSE IF value.type = "object"
    THEN [name |-> key \o <<"+", "map">>,
          value |-> Join([i \in 1..Len(value.entries) |->
                             value.entries[i].k \o <<"=">>
                                \o value.entries[i].v],
                         <<";">>)]
    ELSE [name |-> key, value |-> value.text]

\* the application/x-www-form-urlencoded serializer of URLSearchParams on a
\* name or a value: a space becomes +, every other character outside
\* letters, digits and * - . _ becomes its percent code
FormUrlEncode(s) ==
    [i \in 1..Len(s) |->
        CASE s[i] = " " -> "+"
          [] s[i] = "+" -> "%2B"
          [] s[i] = "," -> "%2C"
          [] s[i] = ";" -> "%3B"
          [] s[i] = "=" -> "%3D"
          [] s[i] = "&" -> "%26"
          [] s[i] = "/" -> "%2F"
          [] s[i] = "?" -> "%3F"
          [] OTHER -> s[i]]

\* queryParams.toString(): name=value of every pair, joined by &
Serialize(pairs) ==
    Join([i \in 1..Len(pairs) |->
             FormUrlEncode(pairs[i].name) \o <<"=">>
                \o FormUrlEncode(pairs[i].value)],
         <<"&">>)

\* createTypedQuery(params)
CreateTypedQuery(params) ==
    Text(Serialize([i \in 1..Len(params) |->
                       TypedPair(params[i].key, params[i].value)]))

\* a buildPath that writes the path before the query
BuildPathQueryLast(device, path, params) ==
    "/" \o device
        \o (IF path # <<>> THEN "/" \o Text(path) ELSE "")
        \o (IF Len(params) > 0 THEN "?" \o CreateTypedQuery(params) ELSE "")

\* buildPath(device, path = '', params = {}): the query comes before the
\* path; the path is a string, '' when it is not given
BuildPath(device, path, params) ==
    "/" \o device
        \o (IF Len(params) > 0 THEN "?" \o CreateTypedQuery(params) ELSE "")
        \o (IF path # <<>> THEN "/" \o Text(path) ELSE "")

Devices == {"~message@1.0", "p1~process@1.0"}
\* the paths of the model: none, one segment, two segments, and a path with
\* an empty segment
Paths == {<<>>, <<"greeting">>, <<"items", "/", "1">>,
          <<"a", "/", "/", "b">>}

\* the calls of the model with the object params
UtilCalls(params) ==
    [fn : {"createTypedQuery"}, device : {""}, path : {<<>>},
     params : {params}]
    \cup
    [fn : {"buildPath"}, device : Devices, path : Paths, params : {params}]

\* one function of HyperBEAMUtils is called
InitUtil ==
    /\ \E params \in Params(MaxParams) : utilCall \in UtilCalls(params)
    /\ utilPc = "called"
    /\ utilResult = Pending

\* createTypedQuery runs and returns
CreateTypedQueryReturns ==
    /\ utilPc = "called"
    /\ utilCall.fn = "createTypedQuery"
    /\ utilPc' = "done"
    /\ utilResult' = [kind |-> "returned",
                      value |-> CreateTypedQuery(utilCall.params)]
    /\ UNCHANGED utilCall

\* buildPath runs and returns
BuildPathReturns ==
    /\ utilPc = "called"
    /\ utilCall.fn = "buildPath"
    /\ utilPc' = "done"
    /\ utilResult' = [kind |-> "returned",
                      value |-> BuildPath(utilCall.device, utilCall.path,
                                          utilCall.params)]
    /\ UNCHANGED utilCall

\* no function of HyperBEAMUtils is called
UtilIdle ==
    /\ utilCall = [fn |-> "none", device |-> "", path |-> <<>>,
                   params |-> <<>>]
    /\ utilPc = "idle"
    /\ utilResult = Pending

\* ------------------------------------------------------------ specifications

Init == InitPoll /\ WaitIdle /\ DashIdle /\ ReqIdle /\ ProcIdle /\ UtilIdle

Next ==
    \/ \E cb \in Callbacks :
          Subscribe(cb) /\ UNCHANGED <<waitVars, dashVars, reqVars, procVars, utilVars>>
    \/ \E interval \in Intervals :
          StartPolling(interval) /\ UNCHANGED <<waitVars, dashVars, reqVars, procVars, utilVars>>
    \/ StopPolling /\ UNCHANGED <<waitVars, dashVars, reqVars, procVars, utilVars>>
    \/ Advance /\ UNCHANGED <<waitVars, dashVars, reqVars, procVars, utilVars>>
    \/ \E t \in inflight, state \in States :
          TickResolved(t, state) /\ UNCHANGED <<waitVars, dashVars, reqVars, procVars, utilVars>>
    \/ \E t \in inflight, error \in Errors :
          TickRejected(t, error) /\ UNCHANGED <<waitVars, dashVars, reqVars, procVars, utilVars>>

\* the polling engine of one ProcessDashboard
Spec == Init /\ [][Next]_vars

InitOfWait ==
    InitWait /\ InitPoll /\ DashIdle /\ ReqIdle /\ ProcIdle /\ UtilIdle

NextOfWait ==
    \/ WaitStart /\ UNCHANGED <<pollVars, dashVars, reqVars, procVars, utilVars>>
    \/ \E state \in States :
          WaitFetchResolved(state) /\ UNCHANGED <<pollVars, dashVars, reqVars, procVars, utilVars>>
    \/ \E error \in Errors :
          WaitFetchRejected(error) /\ UNCHANGED <<pollVars, dashVars, reqVars, procVars, utilVars>>
    \/ WaitSleepDone /\ UNCHANGED <<pollVars, dashVars, reqVars, procVars, utilVars>>

\* one call of waitForStateChange
SpecWait == InitOfWait /\ [][NextOfWait]_vars

\* one call of waitForStateChange in which every fetch completes and every
\* sleep ends
SpecWaitFair == InitOfWait /\ [][NextOfWait]_vars /\ WF_vars(NextOfWait)

InitOfDash ==
    InitDash /\ InitPoll /\ WaitIdle /\ ReqIdle /\ ProcIdle /\ UtilIdle

NextOfDash ==
    \/ DashStart /\ UNCHANGED <<pollVars, waitVars, reqVars, procVars, utilVars>>
    \/ \E view \in {"state", "schedule", "cache"}, now \in Timestamps :
          \E value \in DashValues(view) :
             DashReply(view, Fulfilled(value), now)
                /\ UNCHANGED <<pollVars, waitVars, reqVars, procVars, utilVars>>
    \/ \E view \in {"state", "schedule", "cache"}, now \in Timestamps :
          \E error \in Errors :
             DashReply(view, Rejected(error), now)
                /\ UNCHANGED <<pollVars, waitVars, reqVars, procVars, utilVars>>

\* one call of getDashboardData
SpecDash == InitOfDash /\ [][NextOfDash]_vars

InitOfReq ==
    InitReq /\ InitPoll /\ WaitIdle /\ DashIdle /\ ProcIdle /\ UtilIdle

NextOfReq ==
    \/ ReqStart /\ UNCHANGED <<pollVars, waitVars, dashVars, procVars, utilVars>>
    \/ \E error \in {NetworkError, TimeoutError} :
          ReqFetchRejected(error) /\ UNCHANGED <<pollVars, waitVars, dashVars, procVars, utilVars>>
    \/ \E response \in Responses :
          ReqFetchResolved(response)
             /\ UNCHANGED <<pollVars, waitVars, dashVars, procVars, utilVars>>
    \/ ReqBodyRead /\ UNCHANGED <<pollVars, waitVars, dashVars, procVars, utilVars>>
    \/ ReqBodyAborted /\ UNCHANGED <<pollVars, waitVars, dashVars, procVars, utilVars>>

\* one call of get or post
SpecReq == InitOfReq /\ [][NextOfReq]_vars

\* the timeout of the request's signal elapses
ReqTimeout ==
    \/ ReqFetchRejected(TimeoutError) /\ UNCHANGED <<pollVars, waitVars, dashVars, procVars, utilVars>>
    \/ ReqBodyAborted /\ UNCHANGED <<pollVars, waitVars, dashVars, procVars, utilVars>>

\* one call of get or post where time passes: the call runs to its first
\* await, and the timer of a signal fires once its timeout has elapsed; the
\* node is not bound to answer
SpecReqFair ==
    /\ InitOfReq
    /\ [][NextOfReq]_vars
    /\ WF_vars(ReqStart /\ UNCHANGED <<pollVars, waitVars, dashVars, procVars, utilVars>>)
    /\ WF_vars(ReqTimeout)


InitOfProc == InitProc /\ InitPoll /\ WaitIdle /\ DashIdle /\ UtilIdle

NextOfProc ==
    \/ ProcStart /\ UNCHANGED <<pollVars, waitVars, dashVars, utilVars>>
    \/ \E error \in {NetworkError, TimeoutError} :
          ReqFetchRejected(error)
             /\ UNCHANGED <<pollVars, waitVars, dashVars, procVars, utilVars>>
    \/ \E response \in Responses :
          ReqFetchResolved(response)
             /\ UNCHANGED <<pollVars, waitVars, dashVars, procVars, utilVars>>
    \/ ReqBodyRead
          /\ UNCHANGED <<pollVars, waitVars, dashVars, procVars, utilVars>>
    \/ ReqBodyAborted
          /\ UNCHANGED <<pollVars, waitVars, dashVars, procVars, utilVars>>
    \/ ProcReturn /\ UNCHANGED <<pollVars, waitVars, dashVars, utilVars>>

\* one call of a method of a ProcessClient
SpecProc == InitOfProc /\ [][NextOfProc]_vars

InitOfUtil == InitUtil /\ InitPoll /\ WaitIdle /\ DashIdle /\ ReqIdle /\ ProcIdle

NextOfUtil ==
    \/ CreateTypedQueryReturns
          /\ UNCHANGED <<pollVars, waitVars, dashVars, reqVars, procVars>>
    \/ BuildPathReturns
          /\ UNCHANGED <<pollVars, waitVars, dashVars, reqVars, procVars>>

\* one call of a function of HyperBEAMUtils
SpecUtil == InitOfUtil /\ [][NextOfUtil]_vars

\* ------------------------------------------------- the polling engine's claims

\* C1: after any sequence of startPolling and stopPolling calls at most one
\* timer is active; startPolling called while a timer is active replaces it,
\* so after one or more startPolling calls exactly one timer is active, the
\* one this.pollingInterval names, and no unit of time fires two ticks.
C1_AtMostOneTimer ==
    /\ Cardinality(timers) <= 1
    /\ firedNow <= 1
    /\ startsSinceStop >= 1 =>
          /\ Cardinality(timers) = 1
          /\ ActiveHandles(timers) = {pollingInterval}

\* startPolling was called twice in a row and the one timer left has ticked
C1_Witness ==
    /\ startsSinceStop = 2
    /\ Cardinality(timers) = 1
    /\ firedNow = 1
    /\ \E t \in inflight : t.timer = pollingInterval

\* C2: on a tick whose fetch succeeded, every registered observer was called
\* with the fetched state, in registration order, the observers registered
\* after a throwing one included, and no exception left the tick callback.
C2_EveryObserverNotified ==
    lastDone.kind = "ok" =>
        /\ Len(lastDone.calls) = Len(lastDone.registered)
        /\ \A k \in 1..Len(lastDone.registered) :
              lastDone.calls[k] = [cb |-> lastDone.registered[k],
                                   arg |-> lastDone.fetched]
        /\ lastDone.escaped = NoError

\* a tick delivered to an observer registered after one that threw
C2_Witness ==
    /\ lastDone.kind = "ok"
    /\ lastDone.registered = <<"cbThrow", "cbA">>
    /\ Len(lastDone.calls) = 2
    /\ Len(lastDone.reports) = 1

\* C3: a tick whose fetch fails leaves the engine Polling with the same timer,
\* reports the error and calls no observer; while the engine is Polling its
\* timer stays active, so the later ticks fire.
C3_FailedTickKeepsPolling ==
    /\ [](pollingInterval # NoTimer =>
             pollingInterval \in ActiveHandles(timers))
    /\ [][(lastDone'.tick # lastDone.tick /\ lastDone'.kind = "err") =>
             /\ pollingInterval' = pollingInterval
             /\ timers' = timers
             /\ lastDone'.calls = <<>>
             /\ Len(lastDone'.reports) = 1
             /\ lastDone'.reports[1].error \in Errors]_vars

\* the first tick failed, and the next tick of the same timer delivered
C3_Witness ==
    /\ nextHandle = 2
    /\ pollingInterval = 1
    /\ lastFailed = 1
    /\ lastDone.kind = "ok"
    /\ lastDone.tick = 2
    /\ lastDone.calls # <<>>

\* C4: stopPolling leaves the engine Idle with no timer handle and no active
\* timer, and keeps the subscriber list; called while Idle it changes nothing;
\* and while the engine is Idle no tick fires.
C4_StopCancelsTimer ==
    /\ [][StopPolling =>
             /\ pollingInterval' = NoTimer
             /\ timers' = {}
             /\ subscribers' = subscribers
             /\ (pollingInterval = NoTimer => timers' = timers)]_vars
    /\ [][pollingInterval = NoTimer => tickCount' = tickCount]_vars

\* the engine polled, ticked, and was stopped
C4_Witness ==
    /\ tickCount >= 1
    /\ pollingInterval = NoTimer
    /\ timers = {}
    /\ startsSinceStop = 0

\* ------------------------------------------- waitForStateChange's claims

\* the number of liveState fetches the call has issued
WaitFetches == Cardinality({k \in DOMAIN waitLog : waitLog[k].ev = "fetch"})

\* checkFunction returned falsy on every state fetched so far
CheckNeverTrue ==
    \A k \in DOMAIN waitOutcomes :
        waitOutcomes[k].ok => waitCheck[waitOutcomes[k].value] = "false"

\* C5 as stated, for a predicate that is false on every state there is (and
\* so on every fetched state): with maxAttempts = N >= 1 the call makes
\* exactly N fetches and fails with PredicateNotMet.
C5_AsStated ==
    (/\ waitPc = "done"
     /\ waitMax >= 1
     /\ \A s \in States : waitCheck[s] = "false") =>
        /\ WaitFetches = waitMax
        /\ Len(waitOutcomes) = waitMax
        /\ waitResult = [kind |-> "threw", value |-> PredicateNotMet]

\* C5 as amended: with maxAttempts = N >= 1 and a predicate false on every
\* fetched state, the call makes exactly N fetches and then fails: with
\* PredicateNotMet when the last fetch succeeded, with the error of the last
\* fetch when it failed.
C5_ExactlyNAttempts ==
    (waitPc = "done" /\ waitMax >= 1 /\ CheckNeverTrue) =>
        /\ WaitFetches = waitMax
        /\ Len(waitOutcomes) = waitMax
        /\ waitResult.kind = "threw"
        /\ waitResult.value = IF waitOutcomes[waitMax].ok
                              THEN PredicateNotMet
                              ELSE waitOutcomes[waitMax].value

\* three fetches succeeded, the predicate was false on each, PredicateNotMet
C5_Witness ==
    /\ waitPc = "done"
    /\ waitMax = 3
    /\ CheckNeverTrue
    /\ \A k \in DOMAIN waitOutcomes : waitOutcomes[k].ok
    /\ WaitFetches = 3
    /\ waitResult = [kind |-> "threw", value |-> PredicateNotMet]

\* C6: a fetched state that satisfies the predicate is the last state
\* fetched: the call has returned it and has issued no fetch after that
\* attempt, so the state returned is the first one in fetch order that
\* satisfies the predicate.
C6_ReturnsFirstMatch ==
    \A k \in DOMAIN waitOutcomes :
        (waitOutcomes[k].ok /\ waitCheck[waitOutcomes[k].value] = "true") =>
            /\ k = Len(waitOutcomes)
            /\ WaitFetches = k
            /\ k <= waitMax
            /\ waitPc = "done"
            /\ waitResult = [kind |-> "returned",
                             value |-> waitOutcomes[k].value]

\* the second of three allowed attempts satisfied the predicate
C6_Witness ==
    /\ waitPc = "done"
    /\ waitMax = 3
    /\ Len(waitOutcomes) = 2
    /\ waitOutcomes[1].ok
    /\ waitCheck[waitOutcomes[1].value] = "false"
    /\ waitResult = [kind |-> "returned", value |-> waitOutcomes[2].value]

\* C7: a fetch error on attempt k < maxAttempts does not end the call: the
\* attempt is counted and fetch k + 1 is issued; a fetch error on attempt
\* maxAttempts ends the call, which throws that same error.
C7_ErrorOnlyFatalOnLastAttempt ==
    /\ waitPc = "fetching" => WaitFetches = waitI + 1
    /\ WaitFetches <= IF waitMax >= 0 THEN waitMax ELSE 0
    /\ \A k \in DOMAIN waitOutcomes :
          ~waitOutcomes[k].ok =>
              IF k < waitMax
              THEN /\ WaitFetches >= k + 1
                   /\ k = Len(waitOutcomes) =>
                         waitPc = "fetching" /\ waitResult = Pending
              ELSE /\ k = waitMax
                   /\ WaitFetches = waitMax
                   /\ waitPc = "done"
                   /\ waitResult = [kind |-> "threw",
                                    value |-> waitOutcomes[k].value]

\* both attempts failed, with different errors, and the call threw the second
C7_Witness ==
    /\ waitPc = "done"
    /\ waitMax = 2
    /\ Len(waitOutcomes) = 2
    /\ ~waitOutcomes[1].ok
    /\ ~waitOutcomes[2].ok
    /\ waitOutcomes[1].value # waitOutcomes[2].value
    /\ waitResult = [kind |-> "threw", value |-> waitOutcomes[2].value]

\* the attempt that the fetch at position p of the log belongs to
AttemptAt(p) ==
    Cardinality({k \in 1..p : waitLog[k].ev = "fetch"})

\* attempt a ended with a false predicate or with a fetch error
EndedFalseOrFetchError(a) ==
    /\ a \in DOMAIN waitOutcomes
    /\ waitOutcomes[a].ok => waitCheck[waitOutcomes[a].value] = "false"

\* C8: between any two consecutive fetches of one call a sleep of interval
\* takes place, whether the earlier attempt ended with a false predicate or
\* with a fetch error: in the order of events, the fetch of such an attempt
\* is followed by a sleep of interval, never directly by the next fetch.
C8_SleepBetweenAttempts ==
    \A p \in DOMAIN waitLog :
        (/\ waitLog[p].ev = "fetch"
         /\ p < Len(waitLog)
         /\ EndedFalseOrFetchError(AttemptAt(p))) =>
            waitLog[p + 1] = SleepEvent(waitInterval)

\* --------------------------------------------- getDashboardData's claims

\* C9: getDashboardData tolerates the failure of the cached-subtree fetch and
\* no other: when liveState and log succeed it returns their values as state
\* and schedule, with cache null when the cached-subtree fetch failed and the
\* fetched value when it succeeded; when liveState or log fails the call
\* throws that error, whatever the cached-subtree fetch did.
C9_CacheIsBestEffort ==
    LET st == dashReplies["state"]
        sc == dashReplies["schedule"]
        ca == dashReplies["cache"]
    IN  /\ (st.kind = "ok" /\ sc.kind = "ok" /\ ca.kind # "none") =>
              /\ dashResult.kind = "returned"
              /\ dashResult.value.state = st.value
              /\ dashResult.value.schedule = sc.value
              /\ dashResult.value.cache =
                    IF ca.kind = "err" THEN Null ELSE ca.value
        /\ (st.kind = "err" \/ sc.kind = "err") =>
              /\ dashResult.kind = "threw"
              /\ dashResult.value \in
                    {r.value : r \in {x \in {st, sc} : x.kind = "err"}}

\* liveState and log succeeded, the cached-subtree fetch failed, and the call
\* returned with cache null
C9_Witness ==
    /\ dashReplies["state"].kind = "ok"
    /\ dashReplies["schedule"].kind = "ok"
    /\ dashReplies["cache"].kind = "err"
    /\ dashPc = "done"
    /\ dashResult.kind = "returned"
    /\ dashResult.value.cache = Null

\* ------------------------------------------------- get's and post's claims

\* C10: a call of get or post makes exactly one network call: none before
\* fetch is called, one from then on, whether the call is still waiting, has
\* returned, or has failed (network error, timeout, status, parse failure).
C10_ExactlyOneNetworkCall ==
    /\ reqPc = "called" => Len(reqCalls) = 0
    /\ reqPc \in {"awaitFetch", "awaitBody", "done"} => Len(reqCalls) = 1

\* a call that failed on the parse of the body, having made one network call
C10_Witness ==
    /\ reqPc = "done"
    /\ reqResult.kind = "threw"
    /\ reqResult.value = SyntaxError
    /\ Len(reqCalls) = 1


\* ------------------------------------------------- the request mediator's claims

\* C11: when the response has a status that is not a success status, get and
\* post fail with the error that carries the response's status and
\* statusText, and the body of the response is never read or parsed, whatever
\* content type the response declares.
C11_FailureStatusNeverReadsBody ==
    (reqResponse # NoResponse /\ ~StatusOk(reqResponse.status)) =>
        /\ reqPc = "done"
        /\ reqResult.kind = "threw"
        /\ reqResult.value.name = "Error"
        /\ reqResult.value.status = reqResponse.status
        /\ reqResult.value.statusText = StatusText(reqResponse.status)
        /\ reqReads = <<>>

\* a 404 response that declares JSON and carries JSON failed the call with
\* the status, its body unread
C11_Witness ==
    /\ reqPc = "done"
    /\ reqResponse.status = 404
    /\ reqResponse.contentType = <<"application/json">>
    /\ ParsesAsJson(reqResponse.body)
    /\ reqResult = [kind |-> "threw", value |-> HttpError(404)]
    /\ reqReads = <<>>

\* the media type a content type names: its fragments before the parameters
C12_MediaType(contentType) ==
    SelectSeq(contentType, LAMBDA f : f # "; charset=utf-8")

\* the call got a success status and its body was read to the end
C12_BodyWasRead ==
    /\ reqPc = "done"
    /\ StatusOk(reqResponse.status)
    /\ reqResult.value # TimeoutError

\* C12 as stated: on a success status get and post return the parsed value
\* exactly when the media type the response declares is application/json,
\* and the raw text of the body in every other case, no content type
\* declared included.
C12_AsStated ==
    C12_BodyWasRead =>
        IF C12_MediaType(reqResponse.contentType) = <<"application/json">>
        THEN reqResult.kind = "returned" =>
                reqResult.value = JsonValue(reqResponse.body)
        ELSE reqResult = [kind |-> "returned",
                          value |-> TextValue(reqResponse.body)]

\* C12, amended: on a success status get and post parse the body exactly
\* when the declared content type contains the text application/json, and
\* return the raw text of the body in every other case, no content type
\* declared included.
C12_ParsedWhenTypeContainsJson ==
    C12_BodyWasRead =>
        IF \E k \in 1..Len(reqResponse.contentType) :
              reqResponse.contentType[k] = "application/json"
        THEN reqResult.kind = "returned" =>
                reqResult.value = JsonValue(reqResponse.body)
        ELSE reqResult = [kind |-> "returned",
                          value |-> TextValue(reqResponse.body)]

\* a response that declares application/json with a charset was parsed
C12_Witness ==
    /\ reqPc = "done"
    /\ reqResponse.status = 200
    /\ reqResponse.contentType = <<"application/json", "; charset=utf-8">>
    /\ reqResponse.body = "[2]"
    /\ reqResult = [kind |-> "returned", value |-> JsonValue("[2]")]

\* C13: when a response with a success status declares application/json,
\* with or without parameters, and its body does not parse, get and post fail
\* with an error, the parse error unless the timeout came first; they never
\* return the body as raw text.
C13_UnparsableJsonFails ==
    (/\ reqPc = "done"
     /\ StatusOk(reqResponse.status)
     /\ C12_MediaType(reqResponse.contentType) = <<"application/json">>
     /\ ~ParsesAsJson(reqResponse.body)) =>
        /\ reqResult.kind = "threw"
        /\ reqResult.value \in {SyntaxError, TimeoutError}
        /\ reqReads = <<"json">>

\* a 200 response declaring application/json whose body is not JSON failed
\* the call with the parse error
C13_Witness ==
    /\ reqPc = "done"
    /\ reqResponse = [status |-> 200, contentType |-> <<"application/json">>,
                      body |-> "not json"]
    /\ reqResult = [kind |-> "threw", value |-> SyntaxError]

\* C14: every network call of get and post carries the timeout the client
\* is configured with; a call that ended on the timeout failed with the
\* timeout's error; and every call of get or post eventually completes, with
\* a value or an error, also when the node never answers.
C14_EveryCallCompletes ==
    /\ [](\A k \in 1..Len(reqCalls) :
             /\ reqCalls[k].timeout = client.timeout
             /\ HasTimeoutSignal(reqCalls[k]))
    /\ [][ReqTimeout =>
             /\ reqPc' = "done"
             /\ reqResult' = [kind |-> "threw", value |-> TimeoutError]]_vars
    /\ <>(reqPc = "done" /\ reqResult.kind \in {"returned", "threw"})

\* a call of a client configured with timeout 5 failed on the timeout while
\* it waited for the response
C14_Witness ==
    /\ reqPc = "done"
    /\ client.timeout = 5
    /\ reqCalls[1].timeout = 5
    /\ reqResponse = NoResponse
    /\ reqResult = [kind |-> "threw", value |-> TimeoutError]

\* ------------------------------------------------- the process handle's claims

\* C15: for every action, payload and extra headers, sendMessage issues one
\* POST to /<id>~process@1.0/schedule whose Action header has the value of
\* the action argument and whose body is the payload (as it is when it is a
\* string, serialized otherwise), and returns or throws what that POST did.
C15_ActionHeaderIsTheAction ==
    (procCall.op = "sendMessage" /\ procPc # "called") =>
        /\ Len(reqCalls) = 1
        /\ reqCalls[1].method = "POST"
        /\ reqCalls[1].url = client.nodeUrl \o "/" \o procCall.processId
                                \o "~process@1.0/schedule"
        /\ "Action" \in DOMAIN reqCalls[1].headers
        /\ reqCalls[1].headers["Action"] = procCall.arg[1]
        /\ reqCalls[1].body =
              (IF procCall.data = NotGiven THEN "json:{}"
               ELSE IF procCall.data[1].type = "string"
               THEN procCall.data[1].text
               ELSE "json:" \o procCall.data[1].text)
        /\ procPc = "done" => procResult = reqResult

\* the address each view of a process is read at
C16_Address(processId, op, arg) ==
    "/" \o processId \o "~process@1.0" \o
        (CASE op = "getCurrentState" -> "/now"
           [] op = "getCachedState" -> "/compute"
           [] op = "getSchedule" -> "/schedule"
           [] op = "getCacheData" ->
                 IF arg \in {NotGiven, Given("")} THEN "/compute/cache"
                 ELSE "/compute/cache/" \o arg[1])

\* C16: each view of a process issues one GET to its address on the node:
\* getCurrentState to /<id>~process@1.0/now, getCachedState to
\* /<id>~process@1.0/compute, getSchedule to /<id>~process@1.0/schedule, and
\* getCacheData to the whole cache when the key is omitted or empty and to
\* the key under the cache when a key is given; the address depends on the
\* process, the view and the key only.
C16_ViewsReadTheirAddress ==
    (procCall.op \in ProcViews \cup {"getCacheData"} /\ procPc # "called") =>
        /\ Len(reqCalls) = 1
        /\ reqCalls[1].method = "GET"
        /\ reqCalls[1].url =
              client.nodeUrl \o
                 C16_Address(procCall.processId, procCall.op, procCall.arg)

\* getCacheData("balances") of process p2 returned what the GET of
\* /p2~process@1.0/compute/cache/balances returned
C16_Witness ==
    /\ procPc = "done"
    /\ procCall.op = "getCacheData"
    /\ procCall.processId = "p2"
    /\ procCall.arg = Given("balances")
    /\ reqCalls[1].url = client.nodeUrl \o
                            "/p2~process@1.0/compute/cache/balances"
    /\ procResult.kind = "returned"

\* ------------------------------------------------------- the codec's claims

\* a call of createTypedQuery has returned
C17_Encoded == utilPc = "done" /\ utilCall.fn = "createTypedQuery"

\* the value is a list with an element that contains , or a mapping with a
\* value that contains ; or =
C19_HasSeparator(value) ==
    \/ /\ value.type = "array"
       /\ \E k \in 1..Len(value.items) :
             \E c \in 1..Len(value.items[k]) : value.items[k][c] = ","
    \/ /\ value.type = "object"
       /\ \E k \in 1..Len(value.entries) :
             \E c \in 1..Len(value.entries[k].v) :
                value.entries[k].v[c] \in {";", "="}

\* the wire form of one integer or list parameter, written literally
C17_Wire(p) ==
    IF p.value.type = "number"
    THEN p.key \o <<"+", "integer", "=">> \o p.value.text
    ELSE p.key \o <<"+", "list", "=">> \o Join(p.value.items, <<",">>)

\* C17: for integer and list parameters createTypedQuery returns the
\* literal wire string name+integer=value and name+list=v1,v2,... of the
\* entries, joined by & in insertion order, the characters + and , written
\* as they are: {count: 42, items: ["apple", "banana"]} gives
\* count+integer=42&items+list=apple,banana.
C17_LiteralWireString ==
    (/\ C17_Encoded
     /\ \A i \in 1..Len(utilCall.params) :
           \/ /\ utilCall.params[i].value.type = "number"
              /\ utilCall.params[i].value.whole
           \/ /\ utilCall.params[i].value.type = "array"
              /\ ~C19_HasSeparator(utilCall.params[i].value)) =>
        /\ utilResult.kind = "returned"
        /\ utilResult.value =
              Text(Join([i \in 1..Len(utilCall.params) |->
                            C17_Wire(utilCall.params[i])], <<"&">>))
        /\ utilCall.params =
              << [key |-> <<"count">>,
                  value |-> [type |-> "number", whole |-> TRUE,
                             text |-> <<"42">>]],
                 [key |-> <<"items">>,
                  value |-> [type |-> "array",
                             items |-> << <<"apple">>, <<"banana">> >>]] >>
              => utilResult.value = "count+integer=42&items+list=apple,banana"

\* C18: a number that is an integer is encoded with the suffix +integer and
\* a number that is not with the suffix +float, never with the other one
\* (the + of the suffix written literally or as its percent code).
C18_NumericKindsDistinct ==
    (/\ C17_Encoded
     /\ Len(utilCall.params) = 1
     /\ utilCall.params[1].value.type = "number") =>
        LET key == Text(utilCall.params[1].key)
            text == Text(utilCall.params[1].value.text)
            suffix == IF utilCall.params[1].value.whole
                      THEN "integer" ELSE "float"
        IN  utilResult.value \in {key \o "+" \o suffix \o "=" \o text,
                                  key \o "%2B" \o suffix \o "=" \o text}

\* C19: createTypedQuery on a list with an element that contains , or on a
\* mapping with a value that contains ; or = fails with UnencodableValue
\* and returns no wire string.
C19_SeparatorsRejected ==
    (/\ C17_Encoded
     /\ \E i \in 1..Len(utilCall.params) :
           C19_HasSeparator(utilCall.params[i].value)) =>
        utilResult = [kind |-> "threw", value |-> "UnencodableValue"]

\* C20: two different values under the same parameter name never encode to
\* the same wire parameter (as they must for decode(encode(v)) = v to hold
\* of every value).
C20_EncodingIsInjective ==
    (C17_Encoded /\ Len(utilCall.params) = 1) =>
        \A v \in ParamValues :
           v # utilCall.params[1].value =>
              CreateTypedQuery(<< [key |-> utilCall.params[1].key,
                                   value |-> v] >>) # utilResult.value

\* ------------------------------------------------- the address builder's claims

\* a call of buildPath has ended
C21_Built == utilPc = "done" /\ utilCall.fn = "buildPath"

C22_HasEmptySegment(path) ==
    \E i \in 1..Len(path) :
       /\ path[i] = "/"
       /\ i = 1 \/ i = Len(path) \/ path[i + 1] = "/"

\* C22: buildPath fails with InvalidSegment and returns no address when a
\* segment of the path is empty; with one non-empty segment free of '/' it
\* returns an address in which the segment appears as it was given.
C22_InvalidSegmentRejected ==
    C21_Built =>
        /\ C22_HasEmptySegment(utilCall.path) =>
              utilResult = [kind |-> "threw", value |-> "InvalidSegment"]
        /\ (Len(utilCall.path) = 1 /\ utilCall.params = <<>>) =>
              utilResult = [kind |-> "returned",
                            value |-> "/" \o utilCall.device \o "/"
                                          \o utilCall.path[1]]

\* ----------------------------------------- the polling engine's further claims

\* C23: an observer is invoked only while polling is active and only by a
\* tick of the timer that is active: after stopPolling no observer is invoked
\* until the next startPolling, a fetch in flight at the stop included, and a
\* timer replaced by a second startPolling delivers nothing.
C23_NoDeliveryAfterStop ==
    [][(/\ lastDone' # lastDone
        /\ lastDone'.kind = "ok"
        /\ lastDone'.calls # <<>>) =>
           /\ pollingInterval # NoTimer
           /\ lastDone'.timer = pollingInterval]_vars

\* C24: the observers receive the polled states in tick order: a state
\* fetched by a later tick is never delivered before the state fetched by an
\* earlier tick, so a delivery never follows the delivery of a later tick.
C24_DeliveredInTickOrder ==
    [][(/\ lastDone.kind = "ok"
        /\ lastDone.calls # <<>>
        /\ lastDone' # lastDone
        /\ lastDone'.kind = "ok"
        /\ lastDone'.calls # <<>>) =>
           lastDone'.tick > lastDone.tick]_vars

\* ------------------------------------------- getDashboardData's further claim

\* C25: getDashboardData issues its three GETs (state, schedule, cache), one
\* each, before it waits for any of them, and its outcome is a function of
\* the three replies, not of their order: it returns exactly when the GETs
\* of state and schedule succeed, with their values and the cache value (or
\* null), and it fails exactly when one of those two fails.
C25_FanOutIsOrderIndependent ==
    LET st == dashReplies["state"]
        sc == dashReplies["schedule"]
        ca == dashReplies["cache"]
    IN  /\ dashPc = "called" =>
              /\ dashIssued = <<>>
              /\ \A v \in DOMAIN dashReplies : dashReplies[v] = Pending
        /\ dashPc \in {"waiting", "done"} =>
              /\ Len(dashIssued) = 3
              /\ \A k \in 1..3 : dashIssued[k].method = "GET"
              /\ {dashIssued[k].path : k \in 1..3} =
                    {"/now", "/schedule", "/compute/cache"}
        /\ dashResult.kind = "returned" =>
              /\ st.kind = "ok" /\ sc.kind = "ok" /\ ca.kind # "none"
              /\ dashResult.value.state = st.value
              /\ dashResult.value.schedule = sc.value
              /\ dashResult.value.cache =
                    IF ca.kind = "err" THEN Null ELSE ca.value
        /\ dashResult.kind = "threw" => (st.kind = "err" \/ sc.kind = "err")
        /\ (st.kind # "none" /\ sc.kind # "none" /\ ca.kind # "none") =>
              /\ dashPc = "done"
              /\ dashResult.kind = "returned" <=>
                    (st.kind = "ok" /\ sc.kind = "ok")

\* the three GETs were issued and all three succeeded: the call returned the
\* three values
C25_Witness ==
    /\ dashPc = "done"
    /\ Len(dashIssued) = 3
    /\ dashResult.kind = "returned"
    /\ dashResult.value.cache = "cache2"
    /\ dashResult.value.schedule = "log1"

\* ---------------------------------------- waitForStateChange's further claims

\* C26: when every fetch completes, waitForStateChange terminates, whatever
\* the predicate and the outcomes of the fetches: it returns a state or
\* fails, having made at most maxAttempts fetches; with maxAttempts <= 0 it
\* makes no fetch and fails with the error of PredicateNotMet.
C26_Terminates ==
    /\ <>(waitPc = "done")
    /\ [](waitPc = "done" => waitResult.kind \in {"returned", "threw"})
    /\ [](WaitFetches <= (IF waitMax > 0 THEN waitMax ELSE 0))
    /\ []((waitPc = "done" /\ waitMax <= 0) =>
             /\ waitLog = <<>>
             /\ waitResult = [kind |-> "threw", value |-> PredicateNotMet])

\* a call with maxAttempts -1 failed without a fetch
C26_Witness ==
    /\ waitPc = "done"
    /\ waitMax = -1
    /\ waitLog = <<>>
    /\ waitResult = [kind |-> "threw", value |-> PredicateNotMet]

\* C27: an exception thrown by the predicate is handled like a fetch error:
\* on an attempt other than the last it is swallowed and the fetch of the
\* next attempt follows at once, and on the last attempt it is thrown to the
\* caller, not the error of PredicateNotMet.
C27_ThrowingPredicateLikeFetchError ==
    [][(/\ waitPc = "fetching"
        /\ Len(waitOutcomes') = Len(waitOutcomes) + 1
        /\ waitOutcomes'[Len(waitOutcomes')].ok
        /\ waitCheck[waitOutcomes'[Len(waitOutcomes')].value] = "throw") =>
           IF waitI = waitMax - 1
           THEN /\ waitPc' = "done"
                /\ waitResult' = [kind |-> "threw", value |-> CheckError]
           ELSE /\ waitPc' = "fetching"
                /\ waitI' = waitI + 1
                /\ waitLog' = Append(waitLog, FetchEvent)
                /\ waitResult' = Pending]_vars

\* the predicate threw on the first attempt, which was swallowed, and again
\* on the last one, which failed the call with the predicate's error
C27_Witness ==
    /\ waitPc = "done"
    /\ waitMax = 2
    /\ Len(waitOutcomes) = 2
    /\ \A k \in 1..2 : /\ waitOutcomes[k].ok
                       /\ waitCheck[waitOutcomes[k].value] = "throw"
    /\ waitResult = [kind |-> "threw", value |-> CheckError]

\* -------------------------------------------- get's and post's further claim

\* C28: the headers of the issued request are merged with a fixed
\* precedence: a header given for the call wins over a default header of
\* the client with the same name, in a POST either wins over the built-in
\* Content-Type: application/json, every header not overridden is present,
\* no other header is, and the default headers of the client stay as they
\* were.
C28_HeaderPrecedence ==
    /\ [](\A k \in 1..Len(reqCalls) :
          LET sent == reqCalls[k].headers
              given == IF reqCall.headers = NotGiven THEN NoHeaders
                       ELSE reqCall.headers[1]
              builtIn == IF reqCall.method = "POST"
                         THEN {"Content-Type"} ELSE {}
          IN  /\ DOMAIN sent =
                    DOMAIN given \cup DOMAIN client.defaultHeaders \cup builtIn
              /\ \A n \in DOMAIN sent :
                    sent[n] =
                       IF n \in DOMAIN given THEN given[n]
                       ELSE IF n \in DOMAIN client.defaultHeaders
                       THEN client.defaultHeaders[n]
                       ELSE "application/json")
    /\ [][client' = client]_vars

\* a POST of a client with the default header Content-Type: text/plain,
\* called with Content-Type: application/xml, was sent with application/xml
C28_Witness ==
    /\ reqCall.method = "POST"
    /\ client.defaultHeaders = [n \in {"Content-Type"} |-> "text/plain"]
    /\ reqCall.headers = Given([n \in {"Content-Type"} |-> "application/xml"])
    /\ Len(reqCalls) = 1
    /\ reqCalls[1].headers = [n \in {"Content-Type"} |-> "application/xml"]

\* C29: the subscriber list only grows: every step leaves it as it is or
\* appends one callback, whatever the step (startPolling, stopPolling, a
\* tick, a throwing observer); so on every successful tick the observers are
\* invoked in registration order, once per registration, and the observers
\* of that tick are still the head of the list.
C29_SubscribersOnlyGrow ==
    /\ [][\/ subscribers' = subscribers
          \/ \E cb \in Callbacks : subscribers' = Append(subscribers, cb)]_vars
    /\ [](lastDone.kind = "ok" =>
             /\ lastDone.calls = [k \in 1..Len(lastDone.registered) |->
                                    [cb |-> lastDone.registered[k],
                                     arg |-> lastDone.fetched]]
             /\ Len(lastDone.registered) <= Len(subscribers)
             /\ \A k \in 1..Len(lastDone.registered) :
                   subscribers[k] = lastDone.registered[k])

\* an observer registered twice was invoked twice by a tick of the second
\* timer, started after a stop
C29_Witness ==
    /\ subscribers = <<"cbThrow", "cbThrow">>
    /\ nextHandle = 3
    /\ startsSinceStop = 1
    /\ lastDone.kind = "ok"
    /\ lastDone.timer = 2
    /\ Len(lastDone.calls) = 2
    /\ \A k \in 1..2 : lastDone.calls[k].cb = "cbThrow"
====
